---- MODULE Spec2Model ----
(***************************************************************************)
(* FlowForge.  The pipeline engine (pkg/pipeline/engine.go): the run store, *)
(* the live registry, the per-run driver task and the callers of           *)
(* RunPipeline and CancelPipelineRun, as interleaved atomic steps.  Then    *)
(* the scheduler, scripts.Manager.Execute, the credential key files of the *)
(* git and ssh clients, the SSH key handlers, database.Paginate, a run's   *)
(* log channel with its publishers and GetJobLogs, and the DeployManager,  *)
(* each with a specification of its own.                                   *)
(***************************************************************************)
EXTENDS Integers, Sequences, FiniteSets, TLC

\* ---------------------------------------------------------------- bounds
MaxRuns == 2        \* RunPipeline calls
MaxCancels == 1     \* CancelPipelineRun calls
MaxCap == 1         \* largest max_concurrent value written in the config file
MaxClock == 1       \* seconds the clock may advance
MaxSchedCalls == 3  \* calls of the scheduler's API
MaxFires == 1       \* firings of cron entries
MaxLines == 2       \* lines a script writes to one stream
MaxKeyOps == 2      \* operations that write a credential file
MaxSSHCalls == 3    \* requests to the SSH key handlers
MaxPage == 3        \* largest of the small page numbers
MaxDeployCalls == 3 \* calls of the DeployManager's API
MaxGets == 1        \* GetJobLogs calls on the run
MaxErrLines == 1    \* lines the run's script writes to stderr

\* ------------------------------------------------------ program constants
DefaultMaxConcurrent == 5

RunStatusPending == "pending"
RunStatusRunning == "running"
RunStatusSuccess == "success"
RunStatusFailed == "failed"
RunStatusCancelled == "cancelled"

Terminal == {RunStatusSuccess, RunStatusFailed, RunStatusCancelled}

TriggerManual == "manual"
TriggerWebhook == "webhook"
TriggerSchedule == "schedule"

\* step types executeStep dispatches on; every other type is rejected
KnownStepTypes == {"git_clone", "script", "build", "deploy"}
\* step types that end in scriptManager.Execute(jobCtx.Context, ...)
ScriptStepTypes == {"script", "build", "deploy"}

\* ------------------------------------------------------------ the inputs
\* The pipelines table: Config is the stored JSON text, modelled by whether
\* json.Unmarshal accepts it and, when it does, the stages it decodes to
\* (each stage is the sequence of its steps' types).
PipelineTable ==
    << [json_ok |-> TRUE,
        stages  |-> << <<"git_clone", "script">>, <<"deploy">> >>],
       [json_ok |-> FALSE,
        stages  |-> << >>],
       [json_ok |-> TRUE,
        stages  |-> << <<"build", "notify", "script">> >>] >>

\* Pipeline.ProjectID of each stored pipeline
PipelineProject == <<1, 2, 1>>

PipelineIDs == DOMAIN PipelineTable
\* ids a caller may pass: the stored pipelines and one id that is not stored
RequestedIDs == PipelineIDs \cup {Len(PipelineTable) + 1}
RunIDs == 1 .. MaxRuns

VARIABLES
    config,       \* loaded configuration (config.Deploy)
    now,          \* wall clock, time.Now()
    runs,         \* pipeline_runs table: run id -> stored record
    runningJobs,  \* Engine.runningJobs: ids of the live registry
    jobs,         \* JobContext of every run: context state, log channel state
    driver,       \* position of RunPipeline's caller / executePipeline per run
    cancels,      \* CancelPipelineRun calls: target run, position, returned error
    rejected,     \* RunPipeline calls that returned an error: pipeline id, error
    hist,         \* per run: steps whose action began, returned nil, returned an error
    pure,         \* a call of a function of the engine: name, arguments, result
    sched,        \* Scheduler: the cron engine's entries, the job registry, running
    exec,         \* a call of scripts.Manager.Execute: position, files, pipes, result
    keyops,       \* credential files on disk and the operations that write them
    sshdb,        \* ssh_keys table and the handlers' responses
    logrun,       \* one run with its log channel, its reader goroutines, GetJobLogs calls
    deploy        \* DeployManager: running flag, task map, tasks handed out

vars == <<config, now, runs, runningJobs, jobs, driver, cancels, rejected, hist, pure,
          sched, exec, keyops, sshdb, logrun, deploy>>
\* the engine's state, and the state of the other components
engineVars == <<config, now, runs, runningJobs, jobs, driver, cancels, rejected, hist>>
subsystems == <<sched, exec, keyops, sshdb, logrun, deploy>>

\* ------------------------------------------------------------- helpers
\* config loader: a zero max_concurrent is replaced by the default
LoadMaxConcurrent(n) == IF n = 0 THEN DefaultMaxConcurrent ELSE n

\* json.Unmarshal([]byte(Pipeline.Config), &config): err == nil
UnmarshalOK(pid) == PipelineTable[pid].json_ok
Stages(pid) == PipelineTable[pid].stages

\* first step position at or after stage s (stages without steps are passed
\* over by the inner loop); <<>> when the outer loop runs out of stages
RECURSIVE FirstPos(_, _)
FirstPos(stages, s) ==
    IF s > Len(stages) THEN << >>
    ELSE IF Len(stages[s]) > 0 THEN <<s, 1>>
    ELSE FirstPos(stages, s + 1)

\* a loop that advances its index twice: the step after the current one is skipped
NextPosSkip(stages, s, k) ==
    IF k + 1 < Len(stages[s]) THEN <<s, k + 2>> ELSE FirstPos(stages, s + 1)

\* position the two nested loops reach after step k of stage s returned nil
NextPos(stages, s, k) ==
    IF k < Len(stages[s]) THEN <<s, k + 1>> ELSE FirstPos(stages, s + 1)

StepType(pid, pos) == Stages(pid)[pos[1]][pos[2]]
ProjectOf(pid) == PipelineProject[pid]

\* the driver leaves the loops and calls finishPipelineRun(status, message)
ToFinish(d, status) == [d EXCEPT !.pc = "finish", !.result = status]
\* the driver moves to step position pos, or to success when there is none
ToPos(d, pos) ==
    IF pos = << >> THEN ToFinish(d, RunStatusSuccess)
    ELSE [d EXCEPT !.pc = "step", !.pos = pos]

\* a write that is not atomic: the status is stored, the other columns are not
ApplyUpdatesStatusOnly(rec, updates) ==
    [rec EXCEPT !.status = updates.status]

\* database.DB.Model(run).Updates(updates): the stored record after the write
ApplyUpdates(rec, updates) ==
    [f \in DOMAIN rec |-> IF f \in DOMAIN updates THEN updates[f] ELSE rec[f]]

\* ---------------------------------------------------------------- Init
EngineInit ==
    /\ \E n \in 0 .. MaxCap : config = [max_concurrent |-> LoadMaxConcurrent(n)]
    /\ now = 0
    /\ runs = << >>
    /\ runningJobs = {}
    /\ jobs = << >>
    /\ driver = << >>
    /\ cancels = << >>
    /\ rejected = << >>
    /\ hist = << >>

\* NewScheduler: a stopped cron engine without entries, an empty registry.
\* entries: the cron engine's entries, each with the id AddFunc gave it, its
\* spec and function (job: the registry key it was added for); nextID: the
\* cron engine's id counter; fired: the functions the cron engine has run;
\* last: the last call of the scheduler's API and what it returned.
NewScheduler ==
    [entries |-> {}, nextID |-> 0, running |-> FALSE,
     jobs |-> [j \in {} |-> 0], fired |-> << >>, ncalls |-> 0,
     last |-> [op |-> "none"]]
\* no call of Manager.Execute, no credential operation, an empty ssh_keys table
NoExecute == [pc |-> "none"]
NoKeyOps == [files |-> {}, ops |-> << >>]
NoLogRun == [pc |-> "none"]
\* NewDeployManager: not running, no task
NewDeployManager ==
    [running |-> FALSE, tasks |-> [t \in {} |-> 0], objs |-> << >>,
     runners |-> {}, ncalls |-> 0, last |-> [op |-> "none"]]
EmptySSHDB ==
    [rows |-> << >>, twin |-> << >>, resp |-> [op |-> "none"],
     resp2 |-> [op |-> "none"], ncalls |-> 0]

SubsystemsInit ==
    /\ sched = NewScheduler
    /\ exec = NoExecute
    /\ keyops = NoKeyOps
    /\ sshdb = EmptySSHDB
    /\ logrun = NoLogRun
    /\ deploy = NewDeployManager

Init ==
    /\ EngineInit
    /\ pure = [fn |-> "none"]
    /\ SubsystemsInit

\* ------------------------------------------------------------ RunPipeline
\* the record is created before the pipeline is looked up, and is left behind
\* when the lookup fails
RunPipelineCreateFirst(pid) ==
    /\ Len(runs) + Len(rejected) < MaxRuns
    /\ runs' = Append(runs, [pipeline_id |-> pid,
                             status      |-> RunStatusRunning,
                             trigger_type |-> TriggerManual,
                             start_time  |-> <<now>>,
                             end_time    |-> << >>,
                             duration    |-> 0,
                             logs        |-> "",
                             steps       |-> << >>])
    /\ IF pid \notin PipelineIDs
       THEN /\ rejected' = Append(rejected, [pid |-> pid, err |-> "notfound"])
            /\ UNCHANGED <<jobs, driver, hist>>
       ELSE /\ jobs' = Append(jobs, [ctx_done |-> FALSE, chan_closed |-> FALSE])
            /\ driver' = Append(driver, [pc |-> "created", pos |-> << >>,
                                         result |-> ""])
            /\ hist' = Append(hist, [started |-> << >>, finished |-> << >>,
                                     failed |-> << >>])
            /\ UNCHANGED rejected
    /\ UNCHANGED <<subsystems, pure, config, now, runningJobs, cancels>>

\* lines 49-67: load the pipeline, create the run record
RunPipeline(pid) ==
    /\ Len(runs) + Len(rejected) < MaxRuns
    /\ \E dbOk \in BOOLEAN :
        IF pid \notin PipelineIDs \/ ~dbOk
        THEN /\ rejected' = Append(rejected,
                    [pid |-> pid,
                     err |-> IF pid \notin PipelineIDs THEN "notfound" ELSE "db"])
             /\ UNCHANGED <<subsystems, pure, config, now, runs, runningJobs, jobs, driver, cancels, hist>>
        ELSE /\ runs' = Append(runs, [pipeline_id |-> pid,
                                      status      |-> RunStatusRunning,
                                      trigger_type |-> TriggerManual,
                                      start_time  |-> <<now>>,
                                      end_time    |-> << >>,
                                      duration    |-> 0,
                                      logs        |-> "",
                                      steps       |-> << >>])
             /\ jobs' = Append(jobs, [ctx_done |-> FALSE, chan_closed |-> FALSE])
             /\ driver' = Append(driver, [pc |-> "created", pos |-> << >>,
                                          result |-> ""])
             /\ hist' = Append(hist, [started |-> << >>, finished |-> << >>,
                                      failed |-> << >>])
             /\ UNCHANGED <<subsystems, pure, config, now, runningJobs, cancels, rejected>>

\* lines 69-88: build the job context, register it, start the driver, return
RunPipelineRegister(r) ==
    /\ r \in DOMAIN driver
    /\ driver[r].pc = "created"
    /\ runningJobs' = runningJobs \cup {r}
    /\ driver' = [driver EXCEPT ![r].pc = "parse"]
    /\ UNCHANGED <<subsystems, pure, config, now, runs, jobs, cancels, rejected, hist>>

\* ---------------------------------------------------------- executePipeline
\* lines 101-112: parse the config and enter the stage loop
ParseConfig(r) ==
    /\ r \in DOMAIN driver
    /\ driver[r].pc = "parse"
    /\ LET pid == runs[r].pipeline_id IN
       driver' = [driver EXCEPT ![r] =
                    IF ~UnmarshalOK(pid) THEN ToFinish(@, RunStatusFailed)
                    ELSE ToPos(@, FirstPos(Stages(pid), 1))]
    /\ UNCHANGED <<subsystems, pure, config, now, runs, runningJobs, jobs, cancels, rejected, hist>>

\* executeStep, lines 139-154, up to the point where the step's action is
\* running: CloneOrPull takes no context; a script, build or deploy step
\* fails before launch on a bad step config or when exec's Start finds the
\* context already cancelled; an unknown type is an error
StartStep(r) ==
    /\ r \in DOMAIN driver
    /\ driver[r].pc = "step"
    /\ LET pos == driver[r].pos
           t   == StepType(runs[r].pipeline_id, pos)
           begin ==
               /\ driver' = [driver EXCEPT ![r].pc = "exec"]
               /\ hist' = [hist EXCEPT ![r].started = Append(@, pos)]
           fail ==
               /\ driver' = [driver EXCEPT ![r] = ToFinish(@, RunStatusFailed)]
               /\ hist' = [hist EXCEPT ![r].failed = Append(@, pos)]
       IN  \/ t = "git_clone" /\ begin
           \/ t \in ScriptStepTypes /\ ~jobs[r].ctx_done /\ (begin \/ fail)
           \/ t \in ScriptStepTypes /\ jobs[r].ctx_done /\ fail
           \/ t \notin KnownStepTypes /\ fail
    /\ UNCHANGED <<subsystems, pure, config, now, runs, runningJobs, jobs, cancels, rejected>>

\* the step's action returns (CloneOrPull, or Execute after cmd.Wait): nil, or
\* an error / non-zero exit code (a process killed through the context exits
\* non-zero); executeStage and the stage loop then advance or give up
FinishStep(r) ==
    /\ r \in DOMAIN driver
    /\ driver[r].pc = "exec"
    /\ LET pos == driver[r].pos
           stages == Stages(runs[r].pipeline_id)
       IN  \/ /\ driver' = [driver EXCEPT ![r] = ToPos(@, NextPos(stages, pos[1], pos[2]))]
              /\ hist' = [hist EXCEPT ![r].finished = Append(@, pos)]
           \/ /\ driver' = [driver EXCEPT ![r] = ToFinish(@, RunStatusFailed)]
              /\ hist' = [hist EXCEPT ![r].failed = Append(@, pos)]
    /\ UNCHANGED <<subsystems, pure, config, now, runs, runningJobs, jobs, cancels, rejected>>

\* finishPipelineRun, lines 304-321: one Updates call whose error is only logged
FinishPipelineRun(r) ==
    /\ r \in DOMAIN driver
    /\ driver[r].pc = "finish"
    /\ \E dbOk \in BOOLEAN :
        runs' = IF dbOk
                THEN [runs EXCEPT ![r] = ApplyUpdates(@,
                        [status   |-> driver[r].result,
                         end_time |-> <<now>>,
                         duration |-> now - runs[r].start_time[1],
                         logs     |-> driver[r].result])]
                ELSE runs
    /\ driver' = [driver EXCEPT ![r].pc = "cleanup"]
    /\ UNCHANGED <<subsystems, pure, config, now, runningJobs, jobs, cancels, rejected, hist>>

\* the deferred function without its delete: the channel is closed and the
\* driver exits, the registry keeps the entry
CleanupKeepEntry(r) ==
    /\ r \in DOMAIN driver
    /\ driver[r].pc = "cleanup"
    /\ runningJobs' = runningJobs
    /\ jobs' = [jobs EXCEPT ![r].chan_closed = TRUE]
    /\ driver' = [driver EXCEPT ![r].pc = "done"]
    /\ UNCHANGED <<subsystems, pure, config, now, runs, cancels, rejected, hist>>

\* the deferred function of executePipeline, lines 93-99
Cleanup(r) ==
    /\ r \in DOMAIN driver
    /\ driver[r].pc = "cleanup"
    /\ runningJobs' = runningJobs \ {r}
    /\ jobs' = [jobs EXCEPT ![r].chan_closed = TRUE]
    /\ driver' = [driver EXCEPT ![r].pc = "done"]
    /\ UNCHANGED <<subsystems, pure, config, now, runs, cancels, rejected, hist>>

\* -------------------------------------------------------- CancelPipelineRun
\* the lookup's result is ignored: the call goes on to the cancel and the update
CancelPipelineRunNoLookup(r) ==
    /\ Len(cancels) < MaxCancels
    /\ r \in DOMAIN runs
    /\ cancels' = Append(cancels, [run |-> r, mid_step |-> FALSE, pc |-> "cancel"])
    /\ UNCHANGED <<subsystems, pure, config, now, runs, runningJobs, jobs, driver, rejected, hist>>

\* lines 324-331: the lookup under the read lock
CancelPipelineRun(r) ==
    /\ Len(cancels) < MaxCancels
    /\ cancels' = Append(cancels,
            [run |-> r, mid_step |-> FALSE,
             pc |-> IF r \in runningJobs THEN "cancel" ELSE "notfound"])
    /\ UNCHANGED <<subsystems, pure, config, now, runs, runningJobs, jobs, driver, rejected, hist>>

\* line 334: jobCtx.Cancel()
CancelTrigger(i) ==
    /\ i \in DOMAIN cancels
    /\ cancels[i].pc = "cancel"
    /\ LET r == cancels[i].run IN
       /\ jobs' = [jobs EXCEPT ![r].ctx_done = TRUE]
       /\ cancels' = [cancels EXCEPT ![i].pc = "update",
                                     ![i].mid_step = (driver[r].pc = "exec")]
    /\ UNCHANGED <<subsystems, pure, config, now, runs, runningJobs, driver, rejected, hist>>

\* lines 336-343: the Updates call of the canceller; its error is returned
CancelUpdate(i) ==
    /\ i \in DOMAIN cancels
    /\ cancels[i].pc = "update"
    /\ LET r == cancels[i].run IN
       \E dbOk \in BOOLEAN :
          IF dbOk
          THEN /\ runs' = [runs EXCEPT ![r] = ApplyUpdates(@,
                              [status   |-> RunStatusCancelled,
                               end_time |-> <<now>>,
                               logs     |-> RunStatusCancelled])]
               /\ cancels' = [cancels EXCEPT ![i].pc = "ok"]
          ELSE /\ runs' = runs
               /\ cancels' = [cancels EXCEPT ![i].pc = "error"]
    /\ UNCHANGED <<subsystems, pure, config, now, runningJobs, jobs, driver, rejected, hist>>

\* ---------------------------------------------------------------- Next
Next ==
    \/ \E pid \in RequestedIDs : RunPipeline(pid)
    \/ \E r \in RunIDs : RunPipelineRegister(r)
    \/ \E r \in RunIDs : ParseConfig(r)
    \/ \E r \in RunIDs : StartStep(r)
    \/ \E r \in RunIDs : FinishStep(r)
    \/ \E r \in RunIDs : FinishPipelineRun(r)
    \/ \E r \in RunIDs : Cleanup(r)
    \/ \E r \in RunIDs : CancelPipelineRun(r)
    \/ \E i \in 1 .. MaxCancels : CancelTrigger(i)
    \/ \E i \in 1 .. MaxCancels : CancelUpdate(i)

Spec == Init /\ [][Next]_vars

\* RunPipeline runs to its return once the record is created, and the driver
\* goroutine started at line 86 keeps being scheduled until its deferred
\* function has run; every step's action returns (scripts run under a timeout)
DriverStep(r) ==
    \/ RunPipelineRegister(r)
    \/ ParseConfig(r)
    \/ StartStep(r)
    \/ FinishStep(r)
    \/ FinishPipelineRun(r)
    \/ Cleanup(r)

FairSpec == Spec /\ \A r \in RunIDs : WF_vars(DriverStep(r))

\* ------------------------------------------------------------ the clock
\* time passes between any two steps of the engine
Tick ==
    /\ now < MaxClock
    /\ now' = now + 1
    /\ UNCHANGED <<subsystems, pure, config, runs, runningJobs, jobs, driver, cancels, rejected, hist>>

TimedNext == Next \/ Tick

TimedSpec == Init /\ [][TimedNext]_vars

\* ------------------------------------------- executeScript: the environment
\* the variables every script step receives from the engine
WellKnownKeys ==
    {"PROJECT_NAME", "PROJECT_ID", "PIPELINE_ID", "PIPELINE_RUN_ID", "BUILD_VERSION"}
\* a value of step.Config["env"] that is not a string
NonString == "<non-string>"
\* keys a step's config.env may set, the values it may give them, and the
\* environment of the server process (os.Environ())
UserKeys == {"PROJECT_NAME", "BUILD_VERSION", "DEPLOY_ENV", "PATH"}
UserValues == {"user", NonString}
BaseEnv == [k \in {"PATH"} |-> "base"]
UserEnvs == UNION {[ks -> UserValues] : ks \in SUBSET UserKeys}

\* lines 180-186: the map executeScript starts from
WellKnownEnv(job) ==
    [k \in WellKnownKeys |->
        CASE k = "PROJECT_NAME"    -> job.project_name
          [] k = "PROJECT_ID"      -> ToString(job.project_id)
          [] k = "PIPELINE_ID"     -> ToString(job.pipeline_id)
          [] k = "PIPELINE_RUN_ID" -> ToString(job.run_id)
          [] k = "BUILD_VERSION"   -> "v" \o ToString(job.run_id)]

\* lines 188-195: every string entry of config.env is stored over the map
OptsEnv(job, userEnv) ==
    LET strings == {k \in DOMAIN userEnv : userEnv[k] # NonString} IN
    [k \in WellKnownKeys \cup strings |->
        IF k \in strings THEN userEnv[k] ELSE WellKnownEnv(job)[k]]

\* scripts.go lines 81-85: opts.Env is appended to os.Environ(); of two
\* entries with one key the process sees the later one
ProcessEnv(opts) ==
    [k \in DOMAIN BaseEnv \cup DOMAIN opts |->
        IF k \in DOMAIN opts THEN opts[k] ELSE BaseEnv[k]]

ScriptEnv(job, userEnv) == ProcessEnv(OptsEnv(job, userEnv))

\* ------------------------------------------------ executeBuild: the recipe
\* step.Config["type"] is not a string or is not set
MissingType == "<missing>"
BuildTypes == {"node", "go", "docker", "auto", "python", MissingType}
WorkspaceFiles == {"package.json", "go.mod", "Dockerfile", "README.md"}
CannotDetect == "error: cannot auto-detect"

\* the auto-detection probes the Dockerfile before the other markers
ResolveBuildDockerFirst(cfgType, files) ==
    LET buildType == IF cfgType = MissingType THEN "auto" ELSE cfgType IN
    CASE buildType = "node"   -> "node_build"
      [] buildType = "go"     -> "go_build"
      [] buildType = "docker" -> "docker_build"
      [] OTHER ->
            IF "Dockerfile" \in files THEN "docker_build"
            ELSE IF "package.json" \in files THEN "node_build"
            ELSE IF "go.mod" \in files THEN "go_build"
            ELSE CannotDetect

\* lines 220-248: the key of the builtin script a build step runs, or the error
ResolveBuild(cfgType, files) ==
    LET buildType == IF cfgType = MissingType THEN "auto" ELSE cfgType IN
    CASE buildType = "node"   -> "node_build"
      [] buildType = "go"     -> "go_build"
      [] buildType = "docker" -> "docker_build"
      [] OTHER ->
            IF "package.json" \in files THEN "node_build"
            ELSE IF "go.mod" \in files THEN "go_build"
            ELSE IF "Dockerfile" \in files THEN "docker_build"
            ELSE CannotDetect

\* ------------------------------------------------------ database.Paginate
\* Go's int is 64 bits wide.  A 64-bit two's-complement integer is the
\* sequence of its four 16-bit limbs, least significant first.
LimbBase == 65536
LimbCount == 4
SignLimb == 32768
\* the 64-bit integer of a small number n, -LimbBase < n < LimbBase
Int64(n) ==
    IF n >= 0 THEN <<n, 0, 0, 0>>
    ELSE <<LimbBase + n, LimbBase - 1, LimbBase - 1, LimbBase - 1>>
IsNeg(x) == x[LimbCount] >= SignLimb
LeqZero(x) == IsNeg(x) \/ x = Int64(0)

RECURSIVE DecFrom(_, _)
\* x - 1, borrowing from limb i on, wrapping at 64 bits
DecFrom(x, i) ==
    IF i > LimbCount THEN x
    ELSE IF x[i] > 0 THEN [x EXCEPT ![i] = @ - 1]
    ELSE DecFrom([x EXCEPT ![i] = LimbBase - 1], i + 1)
Dec(x) == DecFrom(x, 1)

RECURSIVE MulFrom(_, _, _, _, _)
\* x * m for 0 <= m <= 100: the limbs of the product and the carry out of
\* the last limb
MulFrom(x, m, i, carry, acc) ==
    IF i > LimbCount THEN [limbs |-> acc, carry |-> carry]
    ELSE LET p == x[i] * m + carry
         IN  MulFrom(x, m, i + 1, p \div LimbBase, Append(acc, p % LimbBase))
\* the product kept in 64 bits
Mul64(x, m) == MulFrom(x, m, 1, 0, << >>).limbs

DefaultPageSize == 10
MaxPageSize == 100

\* Paginate(page, pageSize): the offset and the limit handed to the query
Paginate(page, pageSize) ==
    LET p == IF LeqZero(page) THEN Int64(1) ELSE page
        ps0 == IF pageSize <= 0 THEN DefaultPageSize ELSE pageSize
        ps == IF ps0 > MaxPageSize THEN MaxPageSize ELSE ps0
    IN  [offset |-> Mul64(Dec(p), ps), limit |-> ps]

\* pages: small ones around zero, and large ones around the points where
\* (page - 1) * pageSize leaves 64 bits
MaxInt64 == <<65535, 65535, 65535, 32767>>       \* 9223372036854775807
MinInt64 == <<0, 0, 0, 32768>>                   \* -9223372036854775808
LastExactPage == <<18351, 31457, 44564, 327>>    \* 92233720368547759
FirstWrapPage == <<18352, 31457, 44564, 327>>    \* 92233720368547760
Pages ==
    {Int64(n) : n \in -2 .. MaxPage}
    \cup {MaxInt64, MinInt64, LastExactPage, FirstWrapPage}
\* page sizes; pageSize is only compared with 0 and 100 before it is used
PageSizes == {-1, 0, 1, 10, 20, 100, 101, 1000}

\* ----------------------------------------------- calls of the pure functions
JobInputs ==
    [project_name : {"demo"}, project_id : {PipelineProject[1]},
     pipeline_id : {1}, run_id : RunIDs]
PureCalls ==
    [fn : {"executeScript"}, job : JobInputs, env : UserEnvs, done : {FALSE}]
    \cup [fn : {"executeBuild"}, type : BuildTypes, files : SUBSET WorkspaceFiles,
          done : {FALSE}]
    \cup [fn : {"Paginate"}, page : Pages, pageSize : PageSizes, done : {FALSE}]

PureInit ==
    /\ EngineInit
    /\ pure \in PureCalls
    /\ SubsystemsInit

ExecuteScriptEnv ==
    /\ pure.fn = "executeScript"
    /\ ~pure.done
    /\ pure' = [fn |-> pure.fn, job |-> pure.job, env |-> pure.env, done |-> TRUE,
                res |-> ScriptEnv(pure.job, pure.env)]
    /\ UNCHANGED <<engineVars, subsystems>>

ExecuteBuild ==
    /\ pure.fn = "executeBuild"
    /\ ~pure.done
    /\ pure' = [fn |-> pure.fn, type |-> pure.type, files |-> pure.files,
                done |-> TRUE, res |-> ResolveBuild(pure.type, pure.files)]
    /\ UNCHANGED <<engineVars, subsystems>>

PaginateCall ==
    /\ pure.fn = "Paginate"
    /\ ~pure.done
    /\ pure' = [fn |-> pure.fn, page |-> pure.page, pageSize |-> pure.pageSize,
                done |-> TRUE, res |-> Paginate(pure.page, pure.pageSize)]
    /\ UNCHANGED <<engineVars, subsystems>>

PureNext == ExecuteScriptEnv \/ ExecuteBuild \/ PaginateCall

PureSpec == PureInit /\ [][PureNext]_vars

\* ------------------------------------------------------------- Scheduler
\* A cron spec is the sequence of its space-separated fields.  The cron engine
\* is built with cron.WithSeconds(): a spec parses when it has exactly six
\* fields and every field is well formed.
CleanupSpec == <<"0", "0", "2", "*", "*", "*">>
EverySecond == <<"*", "*", "*", "*", "*", "*">>
FiveFields == <<"0", "2", "*", "*", "*">>
BadField == <<"x", "*", "*", "*", "*", "*">>
EmptySpec == << >>
CronSpecs == {CleanupSpec, EverySecond, FiveFields, BadField, EmptySpec}
CronFields == {"*", "0", "2"}
CronFieldCount == 6
ParseOK(spec) ==
    /\ Len(spec) = CronFieldCount
    /\ \A i \in 1 .. Len(spec) : spec[i] \in CronFields

\* the functions handed to AddJob: two caller-supplied functions, the closure
\* of AddPipelineJob over its pipeline, the closure of AddCleanupJob
CallerFuncs == {[kind |-> "func", arg |-> "A"], [kind |-> "func", arg |-> "B"]}
PipelineFunc(pid) == [kind |-> "pipeline", arg |-> ToString(pid)]
CleanupFunc == [kind |-> "cleanup", arg |-> ""]
NoFunc == [kind |-> "", arg |-> ""]
PipelineJobID(pid) == "pipeline_" \o ToString(pid)
SchedPipelines == {1, 2}

\* cron.Entry(id): the entry with that id, or the zero Entry (ID 0)
Entry(s, id) ==
    IF \E e \in s.entries : e.id = id
    THEN CHOOSE e \in s.entries : e.id = id
    ELSE [id |-> 0, spec |-> EmptySpec, fn |-> NoFunc, job |-> ""]

\* AddJob without the removal of the entry the id already has
AddJobNoRemove(s, jobID, spec, cmd) ==
    IF ~ParseOK(spec)
    THEN [sched |-> s, err |-> TRUE]
    ELSE [sched |-> [s EXCEPT
                !.entries = s.entries \cup {[id |-> s.nextID + 1, spec |-> spec,
                                             fn |-> cmd, job |-> jobID]},
                !.nextID = s.nextID + 1,
                !.jobs = [j \in DOMAIN s.jobs \cup {jobID} |->
                            IF j = jobID THEN s.nextID + 1 ELSE s.jobs[j]]],
          err |-> FALSE]

\* AddJob: the scheduler after the call, and whether it returned an error
AddJob(s, jobID, spec, cmd) ==
    LET kept == IF jobID \in DOMAIN s.jobs
                THEN {e \in s.entries : e.id # s.jobs[jobID]}   \* cron.Remove
                ELSE s.entries
    IN  IF ~ParseOK(spec)                                       \* cron.AddFunc fails
        THEN [sched |-> [s EXCEPT !.entries = kept], err |-> TRUE]
        ELSE [sched |-> [s EXCEPT
                    !.entries = kept \cup {[id |-> s.nextID + 1, spec |-> spec,
                                            fn |-> cmd, job |-> jobID]},
                    !.nextID = s.nextID + 1,
                    !.jobs = [j \in DOMAIN s.jobs \cup {jobID} |->
                                IF j = jobID THEN s.nextID + 1 ELSE s.jobs[j]]],
              err |-> FALSE]

\* RemoveJob without the cron.Remove: only the registry forgets the id
RemoveJobKeepEntry(s, jobID) ==
    IF jobID \notin DOMAIN s.jobs
    THEN [sched |-> s, err |-> TRUE]
    ELSE [sched |-> [s EXCEPT
                !.jobs = [j \in DOMAIN s.jobs \ {jobID} |-> s.jobs[j]]],
          err |-> FALSE]

\* RemoveJob: the scheduler after the call, and whether it returned an error
RemoveJob(s, jobID) ==
    IF jobID \notin DOMAIN s.jobs
    THEN [sched |-> s, err |-> TRUE]
    ELSE [sched |-> [s EXCEPT
                !.entries = {e \in s.entries : e.id # s.jobs[jobID]},
                !.jobs = [j \in DOMAIN s.jobs \ {jobID} |-> s.jobs[j]]],
          err |-> FALSE]

\* the call is recorded in last, with the registry's state before it
Returned(op, jobID, spec, cmd, r) ==
    [r.sched EXCEPT !.ncalls = sched.ncalls + 1,
                    !.last = [op |-> op, job |-> jobID, spec |-> spec, fn |-> cmd,
                              err |-> r.err,
                              existed |-> jobID \in DOMAIN sched.jobs]]

SchedStart ==
    /\ sched.ncalls < MaxSchedCalls
    /\ sched' = Returned("Start", "", EmptySpec, NoFunc,
                    [sched |-> [sched EXCEPT !.running = TRUE], err |-> sched.running])
    /\ UNCHANGED <<engineVars, pure, exec, keyops, sshdb, logrun, deploy>>

SchedStop ==
    /\ sched.ncalls < MaxSchedCalls
    /\ sched' = Returned("Stop", "", EmptySpec, NoFunc,
                    [sched |-> [sched EXCEPT !.running = FALSE], err |-> ~sched.running])
    /\ UNCHANGED <<engineVars, pure, exec, keyops, sshdb, logrun, deploy>>

AddJobCall(jobID, spec, cmd) ==
    /\ sched.ncalls < MaxSchedCalls
    /\ sched' = Returned("AddJob", jobID, spec, cmd, AddJob(sched, jobID, spec, cmd))
    /\ UNCHANGED <<engineVars, pure, exec, keyops, sshdb, logrun, deploy>>

RemoveJobCall(jobID) ==
    /\ sched.ncalls < MaxSchedCalls
    /\ sched' = Returned("RemoveJob", jobID, EmptySpec, NoFunc, RemoveJob(sched, jobID))
    /\ UNCHANGED <<engineVars, pure, exec, keyops, sshdb, logrun, deploy>>

\* AddPipelineJob(pipeline): pid and cronExpr are the pipeline's ID and CronExpr
AddPipelineJob(pid, cronExpr) ==
    /\ sched.ncalls < MaxSchedCalls
    /\ sched' = Returned("AddPipelineJob", PipelineJobID(pid), cronExpr, PipelineFunc(pid),
                    IF cronExpr = EmptySpec
                    THEN [sched |-> sched, err |-> TRUE]
                    ELSE AddJob(sched, PipelineJobID(pid), cronExpr, PipelineFunc(pid)))
    /\ UNCHANGED <<engineVars, pure, exec, keyops, sshdb, logrun, deploy>>

RemovePipelineJob(pid) ==
    /\ sched.ncalls < MaxSchedCalls
    /\ sched' = Returned("RemovePipelineJob", PipelineJobID(pid), EmptySpec, NoFunc,
                         RemoveJob(sched, PipelineJobID(pid)))
    /\ UNCHANGED <<engineVars, pure, exec, keyops, sshdb, logrun, deploy>>

AddCleanupJob ==
    /\ sched.ncalls < MaxSchedCalls
    /\ sched' = Returned("AddCleanupJob", "cleanup", CleanupSpec, CleanupFunc,
                         AddJob(sched, "cleanup", CleanupSpec, CleanupFunc))
    /\ UNCHANGED <<engineVars, pure, exec, keyops, sshdb, logrun, deploy>>

\* The running cron engine fires an entry and runs its function to the end.
\* The closure of AddPipelineJob calls Scheduler.executePipeline, which writes
\* six progress lines to the process log, sleeping a second after each, and
\* returns; performCleanup and the callers' functions touch no state either.
Fire(e) ==
    /\ sched.running
    /\ e \in sched.entries
    /\ Len(sched.fired) < MaxFires
    /\ sched' = [sched EXCEPT !.fired = Append(@, [entry |-> e.id, job |-> e.job,
                                                   fn |-> e.fn])]
    /\ UNCHANGED <<engineVars, pure, exec, keyops, sshdb, logrun, deploy>>

SchedNext ==
    \/ SchedStart
    \/ SchedStop
    \/ \E spec \in CronSpecs, cmd \in CallerFuncs : AddJobCall("job", spec, cmd)
    \/ RemoveJobCall("job")
    \/ \E pid \in SchedPipelines, spec \in CronSpecs : AddPipelineJob(pid, spec)
    \/ \E pid \in SchedPipelines : RemovePipelineJob(pid)
    \/ AddCleanupJob
    \/ \E e \in sched.entries : Fire(e)

SchedSpec == Init /\ [][SchedNext]_vars

\* ------------------------------------------------- scripts.Manager.Execute
\* One call of Execute(ctx, script, opts) with its child process and its two
\* reader goroutines.  A script is what its process does: the lines it writes
\* to each stream, and how it ends (exit: the ExitCode() Go reports, -1 for a
\* process ended by a signal; hangs: it never ends by itself).
Streams == {"stdout", "stderr"}
ExitCodes == {0, 7, -1}
SignalExit == -1
Scripts ==
    [out : 0 .. MaxLines, err : 0 .. MaxLines, exit : ExitCodes, hangs : {FALSE}]
    \cup [out : 0 .. MaxLines, err : 0 .. MaxLines, exit : {0}, hangs : {TRUE}]
\* opts.Timeout: zero (no timeout context) or a positive duration
Timeouts == {0, 30}
TempScript == "script_1.sh"
\* the i-th line the script writes to a stream
LineText(stream, i) == stream \o ToString(i)
LinesOf(script, stream) == IF stream = "stdout" THEN script.out ELSE script.err
\* what the reader goroutine of a stream hands to opts.LogCallback
CallbackText(stream, line) == IF stream = "stdout" THEN line ELSE "ERROR: " \o line

ExecCalls ==
    [pc : {"called"}, script : Scripts, timeout : Timeouts, files : {{}},
     ctx : {"live"}, proc : {"none"}, code : {0}, killed : {FALSE},
     written : {[s \in Streams |-> 0]},
     pipe : {[s \in Streams |-> << >>]}, closed : {FALSE},
     sbuf : {[s \in Streams |-> << >>]}, rdone : {[s \in Streams |-> FALSE]},
     blob : {[s \in Streams |-> << >>]}, delivered : {<< >>},
     res : {[kind |-> "none"]}]

ExecInit ==
    /\ EngineInit
    /\ pure = [fn |-> "none"]
    /\ sched = NewScheduler
    /\ keyops = NoKeyOps
    /\ sshdb = EmptySSHDB
    /\ logrun = NoLogRun
    /\ deploy = NewDeployManager
    /\ exec \in ExecCalls

\* createTempScript, and Execute's return when it fails.  MkdirAll or
\* CreateTemp failing leaves no file; WriteString or Chmod failing returns
\* after CreateTemp made the file, and Execute's deferred os.Remove is not yet
\* registered.
CreateTempOutcomes == {"mkdir", "create", "write", "chmod", "ok"}
FileAfterCreateTemp(outcome) ==
    IF outcome \in {"mkdir", "create"} THEN {} ELSE {TempScript}

CreateTempScript ==
    /\ exec.pc = "called"
    /\ \E outcome \in CreateTempOutcomes :
         exec' = [exec EXCEPT
            !.files = FileAfterCreateTemp(outcome),
            !.pc = IF outcome = "ok" THEN "created" ELSE "returned",
            !.res = IF outcome = "ok" THEN @
                    ELSE [kind |-> "error", stage |-> "tempscript", cause |-> outcome]]
    /\ UNCHANGED <<engineVars, pure, sched, keyops, sshdb, logrun, deploy>>

\* the deferred os.Remove(scriptFile) and the return
Return(e, res) == [e EXCEPT !.pc = "returned", !.files = {}, !.res = res]

\* context.WithTimeout, exec.CommandContext, the pipes and cmd.Start.  Start
\* fails when a pipe cannot be made, when the process cannot be started, and
\* when the context is already done.
StartOutcomes == {"pipe", "start", "ok"}
ExecStart ==
    /\ exec.pc = "created"
    /\ \E outcome \in StartOutcomes :
         IF outcome = "pipe"
         THEN exec' = Return(exec, [kind |-> "error", stage |-> "pipe", cause |-> "pipe"])
         ELSE IF outcome = "start" \/ exec.ctx # "live"
         THEN exec' = Return(exec, [kind |-> "error", stage |-> "start",
                                    cause |-> IF exec.ctx # "live" THEN exec.ctx
                                              ELSE "start"])
         ELSE exec' = [exec EXCEPT !.pc = "running", !.proc = "running"]
    /\ UNCHANGED <<engineVars, pure, sched, keyops, sshdb, logrun, deploy>>

\* the context ends: the caller cancels it, or the timeout elapses (only when
\* opts.Timeout > 0 made a timeout context).  A running child is killed.
CtxDone(kind) ==
    /\ exec.pc \in {"created", "running"}
    /\ exec.ctx = "live"
    /\ kind = "timeout" => exec.timeout > 0
    /\ exec' = [exec EXCEPT
            !.ctx = kind,
            !.proc = IF @ = "running" THEN "exited" ELSE @,
            !.code = IF exec.proc = "running" THEN SignalExit ELSE @,
            !.killed = exec.proc = "running"]
    /\ UNCHANGED <<engineVars, pure, sched, keyops, sshdb, logrun, deploy>>

\* the child writes its next line to a stream
ProcWrite(s) ==
    /\ exec.proc = "running"
    /\ exec.written[s] < LinesOf(exec.script, s)
    /\ exec' = [exec EXCEPT
            !.written[s] = @ + 1,
            !.pipe[s] = Append(@, LineText(s, exec.written[s] + 1))]
    /\ UNCHANGED <<engineVars, pure, sched, keyops, sshdb, logrun, deploy>>

\* the child ends by itself, having written all its lines
ProcExit ==
    /\ exec.proc = "running"
    /\ ~exec.script.hangs
    /\ \A s \in Streams : exec.written[s] = LinesOf(exec.script, s)
    /\ exec' = [exec EXCEPT !.proc = "exited", !.code = exec.script.exit]
    /\ UNCHANGED <<engineVars, pure, sched, keyops, sshdb, logrun, deploy>>

\* One turn of a reader goroutine: scanner.Scan() and the loop body.  Scan
\* returns the next line of its buffer; with an empty buffer it reads what the
\* pipe holds; it returns false at end of file (the child has exited and the
\* pipe is drained) and when the read fails because cmd.Wait closed the pipe.
Deliver(e, s, line) ==
    [e EXCEPT !.blob[s] = Append(@, line),
              !.delivered = Append(@, CallbackText(s, line))]
Scan(s) ==
    /\ exec.pc \in {"running", "waited"}
    /\ ~exec.rdone[s]
    /\ IF exec.sbuf[s] # << >>
       THEN exec' = [Deliver(exec, s, Head(exec.sbuf[s])) EXCEPT !.sbuf[s] = Tail(@)]
       ELSE IF exec.closed
       THEN exec' = [exec EXCEPT !.rdone[s] = TRUE]
       ELSE IF exec.pipe[s] # << >>
       THEN exec' = [Deliver(exec, s, Head(exec.pipe[s])) EXCEPT
                        !.sbuf[s] = Tail(exec.pipe[s]), !.pipe[s] = << >>]
       ELSE /\ exec.proc = "exited"
            /\ exec' = [exec EXCEPT !.rdone[s] = TRUE]
    /\ UNCHANGED <<engineVars, pure, sched, keyops, sshdb, logrun, deploy>>

\* cmd.Wait(): returns once the child has exited, and closes both pipes
CmdWait ==
    /\ exec.pc = "running"
    /\ exec.proc = "exited"
    /\ exec' = [exec EXCEPT !.pc = "waited", !.closed = TRUE]
    /\ UNCHANGED <<engineVars, pure, sched, keyops, sshdb, logrun, deploy>>


\* wg.Wait() and the result: Wait's error is an *exec.ExitError exactly when
\* the child ended with a non-zero status or by a signal
ExecReturn ==
    /\ exec.pc = "waited"
    /\ \A s \in Streams : exec.rdone[s]
    /\ exec' = Return(exec, [kind |-> "result", ExitCode |-> exec.code,
                             Output |-> exec.blob["stdout"],
                             Error |-> exec.blob["stderr"]])
    /\ UNCHANGED <<engineVars, pure, sched, keyops, sshdb, logrun, deploy>>

ExecNext ==
    \/ CreateTempScript
    \/ ExecStart
    \/ \E kind \in {"timeout", "cancelled"} : CtxDone(kind)
    \/ \E s \in Streams : ProcWrite(s)
    \/ ProcExit
    \/ \E s \in Streams : Scan(s)
    \/ CmdWait
    \/ ExecReturn

ExecSpec == ExecInit /\ [][ExecNext]_vars

\* Engine.executeScript after Execute returned: the step's error, or none
StepOutcome(res) ==
    IF res.kind = "error"
    THEN [status |-> "failed", kind |-> "invocation", code |-> 0]
    ELSE IF res.ExitCode # 0
    THEN [status |-> "failed", kind |-> "exit", code |-> res.ExitCode]
    ELSE [status |-> "success", kind |-> "", code |-> 0]

\* --------------------------------------------------- credential key files
\* The operations that write a private key to <KeysPath>/key_<id>:
\* git Client.Clone and Client.Pull (through getAuth) and ssh
\* Client.ExecuteCommand.  keyops.files is the set of key files on disk,
\* keyops.ops the operations in progress or returned.  key 0: the project has
\* no SSH key (getAuth returns no authenticator and writes nothing).
KeyOpKinds == {"clone", "pull", "command"}
KeyIDs == {1, 2}
NoKey == 0
KeyFile(id) == "key_" \o ToString(id)

KeyOpsInit ==
    /\ EngineInit
    /\ pure = [fn |-> "none"]
    /\ sched = NewScheduler
    /\ exec = NoExecute
    /\ sshdb = EmptySSHDB
    /\ logrun = NoLogRun
    /\ deploy = NewDeployManager
    /\ keyops = NoKeyOps

\* The call: Clone's MkdirAll and Pull's PlainOpen/Worktree may fail before
\* getAuth is reached; ExecuteCommand always has a key.
StartKeyOp(kind, key) ==
    /\ Len(keyops.ops) < MaxKeyOps
    /\ kind = "command" => key # NoKey
    /\ \E early \in BOOLEAN :
        /\ early => kind # "command"
        /\ keyops' = [keyops EXCEPT !.ops = Append(@,
               [kind |-> kind, key |-> key,
                pc |-> IF early THEN "returned" ELSE "start",
                err |-> early])]
    /\ UNCHANGED <<engineVars, pure, sched, exec, sshdb, logrun, deploy>>

\* os.WriteFile(keyFile, privateKey, 0600): it may fail to open the file (no
\* file is made), or fail after creating it (the file stays); the error is
\* returned before the deferred os.Remove is registered
WriteOutcomes == {"ok", "open", "write"}
WriteKeyFile(i) ==
    /\ keyops.ops[i].pc = "start"
    /\ IF keyops.ops[i].key = NoKey
       THEN keyops' = [keyops EXCEPT !.ops[i].pc = "operating"]
       ELSE \E outcome \in WriteOutcomes :
              keyops' = [keyops EXCEPT
                  !.files = IF outcome = "open" THEN @
                            ELSE @ \cup {KeyFile(keyops.ops[i].key)},
                  !.ops[i].pc = IF outcome = "ok" THEN "wrote" ELSE "returned",
                  !.ops[i].err = outcome # "ok"]
    /\ UNCHANGED <<engineVars, pure, sched, exec, sshdb, logrun, deploy>>

\* After the write.  getAuth reads the key back from the file
\* (ssh.NewPublicKeysFromFile), which fails when the file is gone or the key
\* does not parse, and returns: its deferred os.Remove deletes the file before
\* Clone or Pull goes on.  ExecuteCommand parses the key from memory and on
\* failure returns through its deferred os.Remove.
LoadKey(i) ==
    /\ keyops.ops[i].pc = "wrote"
    /\ LET op == keyops.ops[i]
           f == KeyFile(op.key)
       IN  \E parses \in BOOLEAN :
             IF op.kind = "command"
             THEN IF parses
                  THEN keyops' = [keyops EXCEPT !.ops[i].pc = "operating"]
                  ELSE keyops' = [keyops EXCEPT !.files = @ \ {f},
                                                !.ops[i].pc = "returned",
                                                !.ops[i].err = TRUE]
             ELSE IF parses /\ f \in keyops.files
                  THEN keyops' = [keyops EXCEPT !.files = @ \ {f},
                                                !.ops[i].pc = "operating"]
                  ELSE keyops' = [keyops EXCEPT !.files = @ \ {f},
                                                !.ops[i].pc = "returned",
                                                !.ops[i].err = TRUE]
    /\ UNCHANGED <<engineVars, pure, sched, exec, sshdb, logrun, deploy>>

\* The operation itself ends (PlainCloneContext, PullContext; Dial,
\* NewSession, session.Run), with or without an error, and the call returns;
\* ExecuteCommand's deferred os.Remove deletes the key file.
FinishKeyOp(i) ==
    /\ keyops.ops[i].pc = "operating"
    /\ \E err \in BOOLEAN :
         keyops' = [keyops EXCEPT
             !.files = IF keyops.ops[i].kind = "command"
                       THEN @ \ {KeyFile(keyops.ops[i].key)} ELSE @,
             !.ops[i].pc = "returned",
             !.ops[i].err = err]
    /\ UNCHANGED <<engineVars, pure, sched, exec, sshdb, logrun, deploy>>

KeyOpsNext ==
    \/ \E kind \in KeyOpKinds, key \in KeyIDs \cup {NoKey} : StartKeyOp(kind, key)
    \/ \E i \in DOMAIN keyops.ops : WriteKeyFile(i)
    \/ \E i \in DOMAIN keyops.ops : LoadKey(i)
    \/ \E i \in DOMAIN keyops.ops : FinishKeyOp(i)

KeyOpsSpec == KeyOpsInit /\ [][KeyOpsNext]_vars

\* ------------------------------------------------------- SSH key handlers
\* The ssh_keys table and the handlers CreateSSHKey, GetSSHKeys, GetSSHKey and
\* UpdateSSHKey.  A row's id is its index in sshdb.rows.  sshdb.twin is a
\* second store that receives the same requests and whose generated keys have
\* the same public halves and other private halves; resp and resp2 are the
\* two stores' responses to the last request.
StatusActive == "active"
DefaultSSHPort == 22
DefaultSSHUser == "root"
SSHUsers == {1, 2}
SSHRequests ==
    {[name |-> "a", host |-> "h", port |-> 0, username |-> ""],
     [name |-> "b", host |-> "h", port |-> 2222, username |-> "deploy"]}
MaxRows == MaxSSHCalls

\* the key material of the n-th generated pair in the two stores
PublicHalf(n) == "pub" \o ToString(n)
PrivateHalf(n, world) == (IF world = 1 THEN "priv" ELSE "other") \o ToString(n)
PrivateHalves == {PrivateHalf(n, w) : n \in 1 .. MaxRows, w \in {1, 2}}

\* GenerateKeyPair() -> (privatePEM, publicAuthorizedKeys)
GenerateKeyPair(n, world) == <<PrivateHalf(n, world), PublicHalf(n)>>

\* encoding/json of an SSHKey: PrivateKey is tagged json:"-" and is left out
ToJSON(row) ==
    [id |-> row.id, name |-> row.name, public_key |-> row.public_key,
     host |-> row.host, port |-> row.port, username |-> row.username,
     status |-> row.status, user_id |-> row.user_id]

OfUser(rows, uid) == SelectSeq(rows, LAMBDA r : r.user_id = uid)
\* First with "id = ? AND user_id = ?"
FoundKey(rows, id, uid) == id \in DOMAIN rows /\ rows[id].user_id = uid

SSHKeysInit ==
    /\ EngineInit
    /\ pure = [fn |-> "none"]
    /\ sched = NewScheduler
    /\ exec = NoExecute
    /\ keyops = NoKeyOps
    /\ sshdb = EmptySSHDB
    /\ logrun = NoLogRun
    /\ deploy = NewDeployManager

\* CreateSSHKey in one store: the row it inserts.  The handler binds the first
\* result of GenerateKeyPair to publicKey and the second to privateKey.
NewSSHKey(rows, uid, req, world) ==
    LET pair == GenerateKeyPair(Len(rows) + 1, world)
        publicKey == pair[1]
        privateKey == pair[2]
    IN  [id |-> Len(rows) + 1, name |-> req.name,
         public_key |-> publicKey, private_key |-> privateKey,
         host |-> req.host,
         port |-> IF req.port = 0 THEN DefaultSSHPort ELSE req.port,
         username |-> IF req.username = "" THEN DefaultSSHUser ELSE req.username,
         user_id |-> uid, status |-> StatusActive]

\* the row as the handlers hand it to the response: PrivateKey cleared
Cleared(row) == [row EXCEPT !.private_key = ""]
Success(op, rows) == [op |-> op, code |-> 200, data |-> rows]
Failure(op, code) == [op |-> op, code |-> code, data |-> << >>]

CreateSSHKey(uid, req) ==
    /\ sshdb.ncalls < MaxSSHCalls
    /\ Len(sshdb.rows) < MaxRows
    /\ \E dbOk \in BOOLEAN :
        LET a == NewSSHKey(sshdb.rows, uid, req, 1)
            b == NewSSHKey(sshdb.twin, uid, req, 2)
        IN  IF dbOk
            THEN sshdb' = [rows |-> Append(sshdb.rows, a),
                           twin |-> Append(sshdb.twin, b),
                           resp |-> Success("create", <<ToJSON(Cleared(a))>>),
                           resp2 |-> Success("create", <<ToJSON(Cleared(b))>>),
                           ncalls |-> sshdb.ncalls + 1]
            ELSE sshdb' = [sshdb EXCEPT !.resp = Failure("create", 500),
                                        !.resp2 = Failure("create", 500),
                                        !.ncalls = @ + 1]
    /\ UNCHANGED <<engineVars, pure, sched, exec, keyops, logrun, deploy>>

\* GetSSHKeys with the default page and page size: the user's rows as found
ListResponse(rows, uid) ==
    Success("list", [i \in DOMAIN OfUser(rows, uid) |-> ToJSON(OfUser(rows, uid)[i])])
GetSSHKeys(uid) ==
    /\ sshdb.ncalls < MaxSSHCalls
    /\ sshdb' = [sshdb EXCEPT !.resp = ListResponse(sshdb.rows, uid),
                              !.resp2 = ListResponse(sshdb.twin, uid),
                              !.ncalls = @ + 1]
    /\ UNCHANGED <<engineVars, pure, sched, exec, keyops, logrun, deploy>>

GetResponse(rows, id, uid) ==
    IF FoundKey(rows, id, uid)
    THEN Success("get", <<ToJSON(Cleared(rows[id]))>>)
    ELSE Failure("get", 404)
GetSSHKey(id, uid) ==
    /\ sshdb.ncalls < MaxSSHCalls
    /\ sshdb' = [sshdb EXCEPT !.resp = GetResponse(sshdb.rows, id, uid),
                              !.resp2 = GetResponse(sshdb.twin, id, uid),
                              !.ncalls = @ + 1]
    /\ UNCHANGED <<engineVars, pure, sched, exec, keyops, logrun, deploy>>

\* UpdateSSHKey in one store: the row Save writes (all fields of the loaded
\* row, the four request fields replaced)
UpdatedKey(row, req) ==
    [row EXCEPT !.name = req.name, !.host = req.host, !.port = req.port,
                !.username = req.username]
UpdateSSHKey(id, uid, req) ==
    /\ sshdb.ncalls < MaxSSHCalls
    /\ \E dbOk \in BOOLEAN :
        IF ~FoundKey(sshdb.rows, id, uid)
        THEN sshdb' = [sshdb EXCEPT !.resp = Failure("update", 404),
                                    !.resp2 = Failure("update", 404),
                                    !.ncalls = @ + 1]
        ELSE IF ~dbOk
        THEN sshdb' = [sshdb EXCEPT !.resp = Failure("update", 500),
                                    !.resp2 = Failure("update", 500),
                                    !.ncalls = @ + 1]
        ELSE LET a == UpdatedKey(sshdb.rows[id], req)
                 b == UpdatedKey(sshdb.twin[id], req)
             IN  sshdb' = [rows |-> [sshdb.rows EXCEPT ![id] = a],
                           twin |-> [sshdb.twin EXCEPT ![id] = b],
                           resp |-> Success("update", <<ToJSON(Cleared(a))>>),
                           resp2 |-> Success("update", <<ToJSON(Cleared(b))>>),
                           ncalls |-> sshdb.ncalls + 1]
    /\ UNCHANGED <<engineVars, pure, sched, exec, keyops, logrun, deploy>>

SSHKeysNext ==
    \/ \E uid \in SSHUsers, req \in SSHRequests : CreateSSHKey(uid, req)
    \/ \E uid \in SSHUsers : GetSSHKeys(uid)
    \/ \E id \in 1 .. MaxRows, uid \in SSHUsers : GetSSHKey(id, uid)
    \/ \E id \in 1 .. MaxRows, uid \in SSHUsers, req \in SSHRequests :
          UpdateSSHKey(id, uid, req)

SSHKeysSpec == SSHKeysInit /\ [][SSHKeysNext]_vars

\* ================================== a run's log channel (engine.go, scripts.go)
\* One registered run whose driver is about to execute a script step, the last
\* of its pipeline.  Lines are numbered in the order of their logMessage calls
\* (npub counts the calls); chan is the buffer of JobContext.LogChan.  The run
\* has logged before: the buffer starts empty (a reader took the lines) or
\* holding the lines published so far, up to the channel's capacity.
LogChanCap == 100
Backlogs == {0, LogChanCap - 1}

LogRunAt(k, out, err) ==
    [pc |-> "step", registered |-> TRUE, status |-> RunStatusRunning,
     wrote |-> FALSE, ctx_done |-> FALSE,
     chan |-> [i \in 1 .. k |-> i], npub |-> k,
     closed |-> FALSE, closes |-> 0, late |-> FALSE,
     proc |-> "none", waited |-> FALSE,
     left |-> [s \in Streams |-> IF s = "stdout" THEN out ELSE err],
     rdone |-> [s \in Streams |-> FALSE],
     result |-> "", gets |-> << >>]

LogInit ==
    /\ EngineInit
    /\ pure = [fn |-> "none"]
    /\ sched = NewScheduler
    /\ exec = NoExecute
    /\ keyops = NoKeyOps
    /\ sshdb = EmptySSHDB
    /\ deploy = NewDeployManager
    /\ logrun \in {LogRunAt(k, out, err) :
                     k \in Backlogs, out \in 0 .. MaxLines, err \in 0 .. MaxErrLines}

\* a send that makes room by discarding the oldest queued line
PublishDropOldest(l) ==
    IF l.closed
    THEN [l EXCEPT !.late = TRUE]
    ELSE IF Len(l.chan) < LogChanCap
    THEN [l EXCEPT !.chan = Append(@, l.npub + 1), !.npub = @ + 1]
    ELSE [l EXCEPT !.chan = Append(Tail(@), l.npub + 1), !.npub = @ + 1]

\* logMessage, lines 288-301: the non-blocking send.  A send on a closed
\* channel panics; with room in the buffer the line is queued; with a full
\* buffer the default branch is taken and the line is lost.
Publish(l) ==
    IF l.closed
    THEN [l EXCEPT !.late = TRUE]
    ELSE IF Len(l.chan) < LogChanCap
    THEN [l EXCEPT !.chan = Append(@, l.npub + 1), !.npub = @ + 1]
    ELSE [l EXCEPT !.npub = @ + 1]

\* executeStep, line 140, and executeScript up to Execute's cmd.Start and the
\* start of the two reader goroutines; the step fails before launch on a bad
\* step config, a failed Start, or a context that is already cancelled
LogStepBegin ==
    /\ logrun.pc = "step"
    /\ \E launch \in BOOLEAN :
         logrun' = IF launch /\ ~logrun.ctx_done
                   THEN [Publish(logrun) EXCEPT !.pc = "exec", !.proc = "running"]
                   ELSE [Publish(logrun) EXCEPT !.pc = "finish",
                                                !.result = RunStatusFailed]
    /\ UNCHANGED <<engineVars, pure, sched, exec, keyops, sshdb, deploy>>

\* scripts.go lines 110-120 and 124-134: a reader goroutine scans a line and
\* calls opts.LogCallback, which is logMessage on the run (engine.go 202-204)
ReaderCallback(s) ==
    /\ logrun.proc # "none"
    /\ ~logrun.rdone[s]
    /\ logrun.left[s] > 0
    /\ logrun' = [Publish(logrun) EXCEPT !.left[s] = @ - 1]
    /\ UNCHANGED <<engineVars, pure, sched, exec, keyops, sshdb, deploy>>

\* the reader's Scan returns false: end of file after the child has written
\* everything, or earlier when the child was killed or cmd.Wait closed the pipe
ReaderEnd(s) ==
    /\ logrun.proc = "exited"
    /\ ~logrun.rdone[s]
    /\ logrun.left[s] = 0 \/ logrun.waited \/ logrun.ctx_done
    /\ logrun' = [logrun EXCEPT !.rdone[s] = TRUE]
    /\ UNCHANGED <<engineVars, pure, sched, exec, keyops, sshdb, deploy>>

\* the child ends: by itself, or killed through the context (cancel, timeout)
LogProcExit ==
    /\ logrun.proc = "running"
    /\ logrun' = [logrun EXCEPT !.proc = "exited"]
    /\ UNCHANGED <<engineVars, pure, sched, exec, keyops, sshdb, deploy>>

\* scripts.go line 138: cmd.Wait() returns and closes the pipes
LogCmdWait ==
    /\ logrun.pc = "exec"
    /\ logrun.proc = "exited"
    /\ ~logrun.waited
    /\ logrun' = [logrun EXCEPT !.waited = TRUE]
    /\ UNCHANGED <<engineVars, pure, sched, exec, keyops, sshdb, deploy>>

\* Execute returning right after cmd.Wait, the reader goroutines left behind
ExecuteReturnNoWait ==
    /\ logrun.pc = "exec"
    /\ logrun.waited
    /\ \E ok \in BOOLEAN :
         logrun' = IF ok
                   THEN [Publish(logrun) EXCEPT !.pc = "finish",
                                                !.result = RunStatusSuccess]
                   ELSE [logrun EXCEPT !.pc = "finish", !.result = RunStatusFailed]
    /\ UNCHANGED <<engineVars, pure, sched, exec, keyops, sshdb, deploy>>

\* scripts.go lines 139-155: wg.Wait() and Execute's return; then the stage
\* loop of executePipeline: the stage's closing line (line 120) after a
\* successful step, none after a failed one
ExecuteReturn ==
    /\ logrun.pc = "exec"
    /\ logrun.waited
    /\ \A s \in Streams : logrun.rdone[s]
    /\ \E ok \in BOOLEAN :
         logrun' = IF ok
                   THEN [Publish(logrun) EXCEPT !.pc = "finish",
                                                !.result = RunStatusSuccess]
                   ELSE [logrun EXCEPT !.pc = "finish", !.result = RunStatusFailed]
    /\ UNCHANGED <<engineVars, pure, sched, exec, keyops, sshdb, deploy>>

\* finishPipelineRun, lines 304-321: the Updates call, then the closing line
LogFinish ==
    /\ logrun.pc = "finish"
    /\ \E dbOk \in BOOLEAN :
         logrun' = [Publish(logrun) EXCEPT
                        !.pc = "cleanup", !.wrote = TRUE,
                        !.status = IF dbOk THEN logrun.result ELSE @]
    /\ UNCHANGED <<engineVars, pure, sched, exec, keyops, sshdb, deploy>>

\* the deferred function of executePipeline, lines 93-99: delete, then close
LogCleanup ==
    /\ logrun.pc = "cleanup"
    /\ logrun' = [logrun EXCEPT !.pc = "done", !.registered = FALSE,
                                !.closed = TRUE, !.closes = @ + 1]
    /\ UNCHANGED <<engineVars, pure, sched, exec, keyops, sshdb, deploy>>

\* CancelPipelineRun of the run, lines 324-344
LogCancel ==
    /\ logrun.pc # "none"
    /\ logrun.registered
    /\ ~logrun.ctx_done
    /\ \E dbOk \in BOOLEAN :
         logrun' = [logrun EXCEPT
                        !.ctx_done = TRUE,
                        !.status = IF dbOk THEN RunStatusCancelled ELSE @]
    /\ UNCHANGED <<engineVars, pure, sched, exec, keyops, sshdb, deploy>>

\* GetJobLogs, lines 359-363: the lookup under the read lock
GetJobLogs ==
    /\ logrun.pc # "none"
    /\ Len(logrun.gets) < MaxGets
    /\ logrun' = [logrun EXCEPT !.gets = Append(@,
            [pc |-> IF logrun.registered THEN "loop" ELSE "stored",
             live |-> logrun.registered, logs |-> << >>])]
    /\ UNCHANGED <<engineVars, pure, sched, exec, keyops, sshdb, deploy>>

\* lines 365-372: the run is not in the registry, the stored blob is returned
GetStored(i) ==
    /\ i \in DOMAIN logrun.gets
    /\ logrun.gets[i].pc = "stored"
    /\ logrun' = [logrun EXCEPT !.gets[i].pc = "returned"]
    /\ UNCHANGED <<engineVars, pure, sched, exec, keyops, sshdb, deploy>>

\* lines 375-382, one turn of the loop: a queued line is received; a receive
\* on a closed and drained channel succeeds at once with the zero value, which
\* is appended like a line, and every later turn does the same (pc "spin": the
\* default branch is never taken again); an open empty channel lets the
\* default branch return the list
GetReceive(i) ==
    /\ i \in DOMAIN logrun.gets
    /\ logrun.gets[i].pc = "loop"
    /\ logrun' =
         IF logrun.chan # << >>
         THEN [logrun EXCEPT !.gets[i].logs = Append(@, Head(logrun.chan)),
                             !.chan = Tail(@)]
         ELSE IF logrun.closed
         THEN [logrun EXCEPT !.gets[i].logs = Append(@, 0),
                             !.gets[i].pc = "spin"]
         ELSE [logrun EXCEPT !.gets[i].pc = "returned"]
    /\ UNCHANGED <<engineVars, pure, sched, exec, keyops, sshdb, deploy>>

LogNext ==
    \/ LogStepBegin
    \/ \E s \in Streams : ReaderCallback(s)
    \/ \E s \in Streams : ReaderEnd(s)
    \/ LogProcExit
    \/ LogCmdWait
    \/ ExecuteReturn
    \/ LogFinish
    \/ LogCleanup
    \/ LogCancel
    \/ GetJobLogs
    \/ \E i \in 1 .. MaxGets : GetStored(i)
    \/ \E i \in 1 .. MaxGets : GetReceive(i)

LogSpec == LogInit /\ [][LogNext]_vars

\* ============================================== DeployManager (deploy.go)
\* deploy.tasks maps a task id to a *DeployTask; deploy.objs are the task
\* objects in creation order (a task's index is its identity), so a task
\* handed out by CreateDeployTask can be compared with what the map holds;
\* deploy.runners are the tasks that have a runDeployTask goroutine.
DeployProjects == {1, 2}

\* fmt.Sprintf("deploy_%d_%d", projectID, time.Now().Unix())
TaskID(projectID, unix) ==
    "deploy_" \o ToString(projectID) \o "_" \o ToString(unix)

DeployInit ==
    /\ EngineInit
    /\ pure = [fn |-> "none"]
    /\ SubsystemsInit

DeployReturned(d, op, arg, res) ==
    [d EXCEPT !.ncalls = deploy.ncalls + 1,
              !.last = [op |-> op, arg |-> arg, res |-> res]]

\* Start, lines 47-58
DeployStart ==
    /\ deploy.ncalls < MaxDeployCalls
    /\ deploy' = DeployReturned([deploy EXCEPT !.running = TRUE], "Start", "",
                                IF deploy.running THEN "error" ELSE "ok")
    /\ UNCHANGED <<engineVars, pure, sched, exec, keyops, sshdb, logrun>>

\* Stop, lines 61-73
DeployStop ==
    /\ deploy.ncalls < MaxDeployCalls
    /\ deploy' = DeployReturned([deploy EXCEPT !.running = FALSE], "Stop", "",
                                IF deploy.running THEN "ok" ELSE "error")
    /\ UNCHANGED <<engineVars, pure, sched, exec, keyops, sshdb, logrun>>

\* CreateDeployTask, lines 76-91: the manager after the call; the new task is
\* the last of objs
CreateDeployTask(d, projectID) ==
    LET taskID == TaskID(projectID, now)
        task == [ID |-> taskID, ProjectID |-> projectID, Status |-> "pending",
                 StartTime |-> now, Logs |-> 0]
    IN  [d EXCEPT !.objs = Append(@, task),
                  !.tasks = [t \in DOMAIN d.tasks \cup {taskID} |->
                                IF t = taskID THEN Len(d.objs) + 1 ELSE d.tasks[t]]]

CreateDeployTaskCall(projectID) ==
    /\ deploy.ncalls < MaxDeployCalls
    /\ deploy' = DeployReturned(CreateDeployTask(deploy, projectID),
                                "CreateDeployTask", projectID, Len(deploy.objs) + 1)
    /\ UNCHANGED <<engineVars, pure, sched, exec, keyops, sshdb, logrun>>

\* GetDeployTask, lines 94-104: the task the map holds for the id, or an error
GetDeployTask(taskID) ==
    /\ deploy.ncalls < MaxDeployCalls
    /\ deploy' = DeployReturned(deploy, "GetDeployTask", taskID,
                                IF taskID \in DOMAIN deploy.tasks
                                THEN deploy.tasks[taskID] ELSE 0)
    /\ UNCHANGED <<engineVars, pure, sched, exec, keyops, sshdb, logrun>>

\* ExecuteDeploy, lines 107-115: create the task and start runDeployTask
ExecuteDeploy(projectID) ==
    /\ deploy.ncalls < MaxDeployCalls
    /\ deploy' = DeployReturned(
                    [CreateDeployTask(deploy, projectID) EXCEPT
                        !.runners = @ \cup {Len(deploy.objs) + 1}],
                    "ExecuteDeploy", projectID, "ok")
    /\ UNCHANGED <<engineVars, pure, sched, exec, keyops, sshdb, logrun>>

\* runDeployTask, lines 118-149, of a task started by ExecuteDeploy: running,
\* then six log lines, then completed
RunDeployTask(n) ==
    /\ n \in deploy.runners
    /\ deploy.objs[n].Status # "completed"
    /\ deploy' = [deploy EXCEPT !.objs[n] =
                    IF @.Status = "pending" THEN [@ EXCEPT !.Status = "running"]
                    ELSE [@ EXCEPT !.Status = "completed", !.Logs = 6]]
    /\ UNCHANGED <<engineVars, pure, sched, exec, keyops, sshdb, logrun>>

DeployNext ==
    \/ DeployStart
    \/ DeployStop
    \/ \E p \in DeployProjects : CreateDeployTaskCall(p)
    \/ \E p \in DeployProjects, t \in 0 .. MaxClock : GetDeployTask(TaskID(p, t))
    \/ \E p \in DeployProjects : ExecuteDeploy(p)
    \/ \E n \in 1 .. MaxDeployCalls : RunDeployTask(n)
    \/ Tick

DeploySpec == DeployInit /\ [][DeployNext]_vars

\* ============================================================== claims
\* a cancel call on run r that passed the registry lookup
Found(i, r) == cancels[i].run = r /\ cancels[i].pc # "notfound"
\* a cancel call on run r that has passed the lookup and has not returned
InFlight(i, r) == cancels[i].run = r /\ cancels[i].pc \in {"cancel", "update"}
NeverCancelled(r) == \A i \in DOMAIN cancels : ~Found(i, r)
\* the pipeline's config parses and all its steps have a type executeStep knows
ValidSpec(pid) ==
    /\ UnmarshalOK(pid)
    /\ \A s \in DOMAIN Stages(pid) : \A k \in DOMAIN Stages(pid)[s] :
          Stages(pid)[s][k] \in KnownStepTypes
\* the step positions <<stage, step>> of a spec, stage by stage, each stage's
\* steps in their order
RECURSIVE Flatten(_, _)
Flatten(stages, s) ==
    IF s > Len(stages) THEN << >>
    ELSE [k \in 1 .. Len(stages[s]) |-> <<s, k>>] \o Flatten(stages, s + 1)
\* the steps of run r's pipeline in spec order
SpecOrder(r) == Flatten(Stages(runs[r].pipeline_id), 1)
Running == {r \in DOMAIN runs : runs[r].status = RunStatusRunning}

\* C1: once the stored status of a run is success, failed or cancelled, no
\* step of any driver or canceller changes it.
C1_TerminalAbsorbing ==
    [][\A r \in DOMAIN runs :
          runs[r].status \in Terminal => runs'[r].status = runs[r].status]_vars

\* C2: when a cancel call that found the run executing a step has returned
\* nil and the run's driver has exited, the stored status is cancelled.
C2_CancelledMidStepEndsCancelled ==
    \A i \in DOMAIN cancels :
        (cancels[i].pc = "ok" /\ cancels[i].mid_step
            /\ driver[cancels[i].run].pc = "done")
        => runs[cancels[i].run].status = RunStatusCancelled

\* C3: the number of runs whose stored status is running never exceeds the
\* configured cap.
C3_RunningWithinCap == Cardinality(Running) <= config.max_concurrent

\* C4: every run ends with a terminal stored status: once its driver has
\* exited and no cancel call on it is still in progress (nothing can write
\* the record any more), the status is success, failed or cancelled.
C4_ExitedRunIsTerminal ==
    \A r \in DOMAIN runs :
        (driver[r].pc = "done" /\ \A i \in DOMAIN cancels : ~InFlight(i, r))
        => runs[r].status \in Terminal

\* C5: a run that was never cancelled ends success if and only if every
\* step of every stage was executed and returned nil, and ends failed
\* otherwise.
C5_SuccessIffAllStepsSucceeded ==
    \A r \in DOMAIN runs :
        (driver[r].pc = "done" /\ NeverCancelled(r))
        => runs[r].status =
              IF UnmarshalOK(runs[r].pipeline_id) /\ hist[r].finished = SpecOrder(r)
              THEN RunStatusSuccess ELSE RunStatusFailed

\* C6: after the first step of a run returned an error no further step of
\* the run begins, and the driver's terminal write makes the run failed.
C6_FirstFailureStopsRun ==
    [][\A r \in DOMAIN runs :
          hist[r].failed # << >> =>
             /\ hist'[r].started = hist[r].started
             /\ hist'[r].failed = hist[r].failed
             /\ (driver[r].pc = "finish" /\ driver'[r].pc = "cleanup"
                    => runs'[r].status = RunStatusFailed)]_vars

\* C7: within a run the steps begin in spec order (stages in order, steps
\* in order inside a stage), every step begun before the latest one has
\* returned nil, and so at most one step of the run is executing.
C7_StepsInOrder ==
    \A r \in DOMAIN runs :
        LET h == hist[r] IN
        /\ Len(h.started) <= Len(SpecOrder(r))
        /\ h.started = SubSeq(SpecOrder(r), 1, Len(h.started))
        /\ Len(h.finished) <= Len(h.started)
        /\ h.finished = SubSeq(h.started, 1, Len(h.finished))
        /\ Len(h.started) - Len(h.finished) <= 1
        /\ (driver[r].pc = "exec" <=>
               Len(h.started) = Len(h.finished) + 1 /\ h.failed = << >>)
\* the third step of a two-stage pipeline is executing
C7_Witness ==
    \E r \in DOMAIN runs :
        /\ driver[r].pc = "exec"
        /\ Len(hist[r].started) = Len(SpecOrder(r))
        /\ Len(hist[r].started) > 2
        /\ hist[r].started[1][1] # hist[r].started[3][1]

\* C8: a run of a pipeline whose config does not parse or names an unknown
\* step type never has status running and none of its steps begins.
C8_InvalidSpecNeverRuns ==
    \A r \in DOMAIN runs :
        ~ValidSpec(runs[r].pipeline_id)
        => runs[r].status # RunStatusRunning /\ hist[r].started = << >>

\* C9: a RunPipeline call for a pipeline id that is not stored returns an
\* error and leaves the run table, the registry, the job contexts and the
\* drivers as they were; no stored run names a pipeline that does not exist.
C9_MissingPipelineChangesNothing ==
    [][/\ \A r \in DOMAIN runs' : runs'[r].pipeline_id \in PipelineIDs
       /\ (Len(rejected') > Len(rejected)
              /\ rejected'[Len(rejected')].err = "notfound")
          => UNCHANGED <<runs, runningJobs, jobs, driver, hist>>]_vars
\* a call for a missing pipeline was rejected while another run was live
C9_Witness ==
    /\ \E k \in DOMAIN rejected :
          rejected[k].err = "notfound" /\ rejected[k].pid \notin PipelineIDs
    /\ runningJobs # {}

\* C10: a CancelPipelineRun call for a run that is not in the registry
\* returns the not-found error at once, cancels no context and leaves the
\* run table unchanged; a context is only ever cancelled, and a record only
\* ever written as cancelled, by a call that found its run in the registry.
C10_CancelNotFoundChangesNothing ==
    [][/\ Len(cancels') > Len(cancels) =>
             LET c == cancels'[Len(cancels')] IN
             /\ c.run \notin runningJobs => c.pc = "notfound"
             /\ UNCHANGED <<runs, jobs, runningJobs, driver>>
       /\ \A i \in DOMAIN cancels :
             cancels[i].pc = "notfound" => cancels'[i] = cancels[i]
       /\ \A r \in DOMAIN jobs' :
             (jobs'[r].ctx_done \/ runs'[r].logs = RunStatusCancelled)
             => \E i \in DOMAIN cancels' : Found(i, r)']_vars
\* a cancel call on a run whose driver had already exited returned not-found
C10_Witness ==
    \E i \in DOMAIN cancels :
        /\ cancels[i].pc = "notfound"
        /\ cancels[i].run \in DOMAIN runs
        /\ driver[cancels[i].run].pc = "done"
        /\ runs[cancels[i].run].status \in Terminal

\* C11: a run record is created with status pending and no start time; it
\* is not running before RunPipeline has registered it and started its driver.
C11_CreatedPending ==
    \A r \in DOMAIN runs :
        driver[r].pc = "created"
        => runs[r].status = RunStatusPending /\ runs[r].start_time = << >>

\* C12: a stored run has an end time if and only if its status is terminal,
\* and every write that changes the status makes it terminal and stores the
\* end time and the log text of that same write.
C12_EndTimeIffTerminal ==
    [][\A r \in DOMAIN runs' :
          /\ runs'[r].status \in Terminal <=> runs'[r].end_time # << >>
          /\ runs'[r].status \in Terminal => runs'[r].logs = runs'[r].status
          /\ (r \in DOMAIN runs /\ runs'[r] # runs[r])
             => /\ runs'[r].status \in Terminal
                /\ runs'[r].end_time = <<now>>]_vars
\* a run cancelled after its driver had written its own terminal status, at
\* a later second
C12_Witness ==
    \E r \in DOMAIN runs :
        /\ runs[r].status = RunStatusCancelled
        /\ driver[r].pc = "done"
        /\ driver[r].result = RunStatusFailed
        /\ runs[r].end_time = <<now>>
        /\ runs[r].start_time # <<now>>

\* C13: for every run whose stored status is terminal the stored duration
\* is the end time minus the start time.
C13_DurationIsEndMinusStart ==
    \A r \in DOMAIN runs :
        runs[r].status \in Terminal
        => runs[r].duration = runs[r].end_time[1] - runs[r].start_time[1]

\* C14: once a cancel call on a run has returned nil, no further step of
\* that run begins its action.
C14_NoStepBeginsAfterCancel ==
    [][\A i \in DOMAIN cancels :
          cancels[i].pc = "ok"
          => hist'[cancels[i].run].started = hist[cancels[i].run].started]_vars

\* the lines captured from the steps of run r, in capture order: the action
\* of every step that began wrote one line, tagged with the step's type
StepLines(r) ==
    [k \in DOMAIN hist[r].started |->
        StepType(runs[r].pipeline_id, hist[r].started[k])]
\* the lines of the log text stored for run r
StoredLines(r) == IF runs[r].logs = "" THEN << >> ELSE <<runs[r].logs>>

\* C15: when a run is terminal, the stored log text contains every line
\* captured from its steps.
C15_StoredLogHasEveryLine ==
    \A r \in DOMAIN runs :
        runs[r].status \in Terminal
        => \A k \in DOMAIN StepLines(r) :
              \E j \in DOMAIN StoredLines(r) : StoredLines(r)[j] = StepLines(r)[k]

\* C18: two runs of pipelines of the same project never execute a step at
\* the same time.
C18_OneRunPerWorkspace ==
    \A r1, r2 \in DOMAIN runs :
        (r1 # r2 /\ driver[r1].pc = "exec" /\ driver[r2].pc = "exec")
        => ProjectOf(runs[r1].pipeline_id) # ProjectOf(runs[r2].pipeline_id)

\* the status the journal of run r must show for the step at position pos
JournalStatus(r, pos) ==
    IF \E k \in DOMAIN hist[r].finished : hist[r].finished[k] = pos THEN "success"
    ELSE IF \E k \in DOMAIN hist[r].failed : hist[r].failed[k] = pos THEN "failed"
    ELSE "skipped"

\* C19: when a run is terminal and one of its steps failed, its step
\* journal has one record per step of the spec: success for the steps before
\* the failed one, failed for it, skipped for the later ones.
C19_JournalAfterFailure ==
    \A r \in DOMAIN runs :
        (runs[r].status \in Terminal /\ hist[r].failed # << >>)
        => /\ Len(runs[r].steps) = Len(SpecOrder(r))
           /\ \A k \in DOMAIN runs[r].steps :
                 runs[r].steps[k].status = JournalStatus(r, SpecOrder(r)[k])

\* C20: runs are admitted (registered and their driver started) in the
\* order in which they were submitted: while an earlier run still waits for
\* admission, no later run has been admitted.
C20_AdmissionIsFifo ==
    \A r1, r2 \in DOMAIN runs :
        (r1 < r2 /\ driver[r1].pc = "created") => driver[r2].pc = "created"

\* C16: the environment of every script step gives the five well-known
\* variables the engine's values, also when config.env sets the same key,
\* and gives every other key of config.env the user's value.
C16_WellKnownsWin ==
    (pure.fn = "executeScript" /\ pure.done)
    => /\ \A k \in WellKnownKeys : pure.res[k] = WellKnownEnv(pure.job)[k]
       /\ \A k \in DOMAIN pure.env \ WellKnownKeys :
             pure.env[k] # NonString => pure.res[k] = pure.env[k]

\* the recipe the specification gives for a build type and a set of files
RecipeReference(type, files) ==
    CASE type = "node"   -> "node_build"
      [] type = "go"     -> "go_build"
      [] type = "docker" -> "docker_build"
      [] type = "auto"   ->
            CASE "package.json" \in files -> "node_build"
              [] "package.json" \notin files /\ "go.mod" \in files -> "go_build"
              [] {"package.json", "go.mod"} \cap files = {} /\ "Dockerfile" \in files
                    -> "docker_build"
              [] {"package.json", "go.mod", "Dockerfile"} \cap files = {}
                    -> CannotDetect

\* C17: for the build types node, go, docker and auto and every set of
\* files in the workspace, the recipe a build step resolves is the reference.
C17_BuildRecipeIsReference ==
    (pure.fn = "executeBuild" /\ pure.done
        /\ pure.type \in {"node", "go", "docker", "auto"})
    => pure.res = RecipeReference(pure.type, pure.files)
\* auto-detection with go.mod and a Dockerfile but no package.json
C17_Witness ==
    /\ pure.fn = "executeBuild" /\ pure.done
    /\ pure.type = "auto"
    /\ pure.files = {"go.mod", "Dockerfile", "README.md"}
    /\ pure.res = "go_build"

\* a step that is a call of the scheduler's operation op
SchedCall(op) == sched'.ncalls = sched.ncalls + 1 /\ sched'.last.op = op

\* C21: AddJob(id, spec', fn') on an id that already has a job, with a valid
\* spec, leaves exactly one cron entry for id, the one the registry names,
\* carrying (spec', fn'); the entry of the earlier call is no longer scheduled.
C21_ReplaceLeavesOneEntry ==
    [][(SchedCall("AddJob") /\ sched'.last.existed /\ ParseOK(sched'.last.spec))
        => LET id == sched'.last.job
               es == {e \in sched'.entries : e.job = id}
           IN  /\ ~sched'.last.err
               /\ Cardinality(es) = 1
               /\ \A e \in es : /\ e.id = sched'.jobs[id]
                                /\ e.spec = sched'.last.spec
                                /\ e.fn = sched'.last.fn
                                /\ e.id # sched.jobs[id]
               /\ Entry(sched', sched.jobs[id]).id = 0]_vars

C21_Witness ==
    /\ sched.last.op = "AddJob"
    /\ sched.last.existed
    /\ ~sched.last.err
    /\ sched.running
    /\ Cardinality(sched.entries) = 1

\* C22: an AddJob that fails on an id that already has a job leaves the
\* earlier job scheduled and unchanged, and the registry still maps the id to
\* a live cron entry.
C22_FailedReplaceKeepsJob ==
    [][(SchedCall("AddJob") /\ sched'.last.existed /\ sched'.last.err)
        => /\ sched'.entries = sched.entries
           /\ sched'.jobs = sched.jobs
           /\ Entry(sched', sched'.jobs[sched'.last.job]).id # 0]_vars

\* C23: every firing of a pipeline job's cron entry creates a run of that
\* pipeline through the engine, with trigger kind schedule.
C23_FiringCreatesScheduledRun ==
    [][(Len(sched'.fired) = Len(sched.fired) + 1
        /\ sched'.fired[Len(sched'.fired)].fn.kind = "pipeline")
        => \E r \in DOMAIN runs' \ DOMAIN runs :
              /\ ToString(runs'[r].pipeline_id) = sched'.fired[Len(sched'.fired)].fn.arg
              /\ runs'[r].trigger_type = TriggerSchedule]_vars

\* C30: AddPipelineJob with an empty or unparseable cron expression returns an
\* error and leaves the job registry and the scheduled cron entries as they
\* were before the call.
C30_BadCronRegistersNothing ==
    [][(SchedCall("AddPipelineJob") /\ ~ParseOK(sched'.last.spec))
        => /\ sched'.last.err
           /\ sched'.jobs = sched.jobs
           /\ sched'.entries = sched.entries]_vars

\* the outcomes of steps whose script ended by itself with a non-zero status
OrdinaryExitOutcomes ==
    {[status |-> "failed", kind |-> "exit", code |-> c] : c \in ExitCodes \ {0}}

\* C24: exit 0 gives step success; a non-zero exit code c gives step failed
\* with c surfaced; an elapsed timeout gives step failed with an outcome
\* distinguishable from an ordinary non-zero exit; a failure to start gives an
\* invocation error distinct from a non-zero exit code.
C24_OutcomeClassified ==
    exec.pc = "returned" =>
        LET o == StepOutcome(exec.res)
        IN  /\ (exec.res.kind = "result" /\ ~exec.killed /\ exec.code = 0)
                  => o.status = "success"
            /\ (exec.res.kind = "result" /\ ~exec.killed /\ exec.code # 0)
                  => o = [status |-> "failed", kind |-> "exit", code |-> exec.code]
            /\ (exec.killed /\ exec.ctx = "timeout")
                  => o.status = "failed" /\ o \notin OrdinaryExitOutcomes
            /\ (exec.res.kind = "error" /\ exec.res.stage = "start")
                  => o.status = "failed" /\ o.kind # "exit"

\* C25: when Execute has returned, on every path, no temporary script file of
\* the call is left on disk.
C25_TempScriptRemoved ==
    exec.pc = "returned" => exec.files = {}

\* the lines of a stream among those handed to the line callback, in order
DeliveredOf(s) ==
    SelectSeq(exec.delivered,
              LAMBDA t : \E i \in 1 .. LinesOf(exec.script, s) :
                            t = CallbackText(s, LineText(s, i)))
WrittenLines(s) == [i \in 1 .. exec.written[s] |-> LineText(s, i)]

\* C26: when Execute returns a result, every line the script wrote to a stream
\* before it ended is in the stream's blob and was handed to the callback, in
\* the order written.
C26_EveryLineDelivered ==
    (exec.pc = "returned" /\ exec.res.kind = "result") =>
        \A s \in Streams :
            /\ exec.blob[s] = WrittenLines(s)
            /\ DeliveredOf(s) = [i \in 1 .. exec.written[s] |->
                                    CallbackText(s, LineText(s, i))]

\* C27: the key file written for an operation exists while the operation
\* (clone, pull, remote command) is under way, and once every operation using
\* that key has returned, with or without an error, the file does not exist.
C27_KeyFileLifetime ==
    /\ \A i \in DOMAIN keyops.ops :
          (keyops.ops[i].pc = "operating" /\ keyops.ops[i].key # NoKey)
              => KeyFile(keyops.ops[i].key) \in keyops.files
    /\ \A k \in KeyIDs :
          (\A i \in DOMAIN keyops.ops :
               keyops.ops[i].key = k => keyops.ops[i].pc = "returned")
              => KeyFile(k) \notin keyops.files

\* the text fields of the rows of a response
ResponseTexts(resp) ==
    {resp.data[i][f] : i \in DOMAIN resp.data,
                       f \in {"name", "public_key", "host", "username", "status"}}

\* C28: over create, list, get and update requests no response carries the
\* private half of a key: the two stores, which differ only in private halves,
\* answer alike, no response field holds a private half, and an update leaves
\* the stored key material as it was.
C28_NoPrivateHalfInResponses ==
    [][sshdb'.ncalls = sshdb.ncalls + 1
        => /\ sshdb'.resp = sshdb'.resp2
           /\ ResponseTexts(sshdb'.resp) \cap PrivateHalves = {}
           /\ \A i \in DOMAIN sshdb'.resp.data :
                 "private_key" \notin DOMAIN sshdb'.resp.data[i]
           /\ sshdb'.resp.op = "update"
                 => \A i \in DOMAIN sshdb.rows :
                       /\ sshdb'.rows[i].private_key = sshdb.rows[i].private_key
                       /\ sshdb'.rows[i].public_key = sshdb.rows[i].public_key]_vars

\* (max(page, 1) - 1) * limit without a width: the product's limbs and carry
ExactOffset(page, limit) ==
    MulFrom(Dec(IF LeqZero(page) THEN Int64(1) ELSE page), limit, 1, 0, << >>)

\* C29: for every page and pageSize the limit applied is in [1, 100]
\* (pageSize itself when it is in that range, 100 when it is above), and the
\* offset is (max(page, 1) - 1) times that limit and is not negative.
C29_PaginateClampsAndOffsets ==
    (pure.fn = "Paginate" /\ pure.done) =>
        LET exact == ExactOffset(pure.page, pure.res.limit)
        IN  /\ pure.res.limit \in 1 .. 100
            /\ pure.pageSize \in 1 .. 100 => pure.res.limit = pure.pageSize
            /\ pure.pageSize > 100 => pure.res.limit = 100
            /\ ~IsNeg(pure.res.offset)
            /\ exact.carry = 0
            /\ pure.res.offset = exact.limbs

\* a step of the system that changes the stored record of run r
Writes(r) == r \in DOMAIN runs /\ runs'[r] # runs[r]

\* C31: a terminal status is written to a run's record only when no step of
\* the run is executing: no write of a terminal status happens while the run's
\* driver is inside a step, also when the run is cancelled.
C31_TerminalWriteAfterLastStep ==
    [][\A r \in RunIDs :
          (Writes(r) /\ runs'[r].status \in Terminal) => driver[r].pc # "exec"]_vars

\* C32: a run's record is written once with a terminal status, and every
\* write after its creation is made by the run's own driver (its
\* finishPipelineRun), never by a caller of CancelPipelineRun.
C32_OneTerminalWriteByDriver ==
    [][\A r \in RunIDs :
          Writes(r) => /\ driver[r].pc = "finish"
                       /\ driver'[r].pc = "cleanup"
                       /\ runs[r].status \notin Terminal
                       /\ cancels' = cancels]_vars

\* C33: every run in the live registry has stored status running.
C33_RegistryHoldsOnlyRunning ==
    \A r \in runningJobs : runs[r].status = RunStatusRunning

\* C37: a run whose driver is under way is in the live registry, a run whose
\* driver has exited is not, and every run in the registry is eventually
\* removed from it, whatever its outcome.
C37_RegistryEntryRemoved ==
    /\ [](\A r \in DOMAIN driver :
             /\ driver[r].pc \in {"parse", "step", "exec", "finish", "cleanup"}
                    => r \in runningJobs
             /\ driver[r].pc = "done" => r \notin runningJobs)
    /\ \A r \in RunIDs : (r \in runningJobs) ~> (r \notin runningJobs)

\* a cancelled run and a run whose terminal write failed, both exited and
\* out of the registry
C37_Witness ==
    /\ runningJobs = {}
    /\ \E r \in DOMAIN driver : driver[r].pc = "done" /\ jobs[r].ctx_done
    /\ \E r \in DOMAIN driver :
          driver[r].pc = "done" /\ runs[r].status = RunStatusRunning

\* C39: RemoveJob(id) on a registered id unschedules the cron entry of that
\* job and removes that id from the registry, every other job and entry
\* unchanged and the job count one less; on an unregistered id it returns an
\* error and changes neither registry nor entries. RemovePipelineJob(p) does
\* this for the id AddPipelineJob(p) registers.
C39_RemoveJobFrame ==
    [][(SchedCall("RemoveJob") \/ SchedCall("RemovePipelineJob"))
        => LET id == sched'.last.job IN
           /\ sched'.last.op = "RemovePipelineJob"
                => \E p \in SchedPipelines : id = PipelineJobID(p)
           /\ sched'.last.err = ~sched'.last.existed
           /\ sched'.last.existed = (id \in DOMAIN sched.jobs)
           /\ sched'.entries = {e \in sched.entries : e.job # id}
           /\ DOMAIN sched'.jobs = DOMAIN sched.jobs \ {id}
           /\ \A j \in DOMAIN sched'.jobs : sched'.jobs[j] = sched.jobs[j]
           /\ Cardinality(DOMAIN sched'.jobs) =
                 Cardinality(DOMAIN sched.jobs) - (IF sched'.last.existed THEN 1 ELSE 0)
           /\ sched'.last.existed
                => \A e \in sched.entries \ sched'.entries : e.id = sched.jobs[id]
           /\ sched'.running = sched.running
           /\ sched'.fired = sched.fired]_vars

\* a pipeline job was removed while another job stays scheduled
C39_Witness ==
    /\ sched.last.op = "RemovePipelineJob"
    /\ sched.last.existed
    /\ ~sched.last.err
    /\ sched.last.job \notin DOMAIN sched.jobs
    /\ Cardinality(DOMAIN sched.jobs) = 1
    /\ Cardinality(sched.entries) = 1

\* C38: operations that use the same credential do not disturb each other
\* through the key file: between an operation's write of the file and its
\* read of it (getAuth's NewPublicKeysFromFile) the file is there, no other
\* operation's delete has removed it.
C38_KeyFileNotShared ==
    \A i \in DOMAIN keyops.ops :
        (keyops.ops[i].pc = "wrote" /\ keyops.ops[i].kind # "command")
            => KeyFile(keyops.ops[i].key) \in keyops.files

\* C40: the tasks created so far have pairwise different ids, and the task
\* map still holds each of them under its id: none was replaced by a later
\* task, so GetDeployTask finds every created task.
C40_TaskIdsUnique ==
    /\ \A i, j \in DOMAIN deploy.objs :
          i # j => deploy.objs[i].ID # deploy.objs[j].ID
    /\ \A i \in DOMAIN deploy.objs :
          /\ deploy.objs[i].ID \in DOMAIN deploy.tasks
          /\ deploy.tasks[deploy.objs[i].ID] = i

\* C34: the run's log channel is closed once, by the driver's deferred
\* function, after finishPipelineRun has issued the terminal write and after
\* both reader goroutines of the step have ended; no logMessage call ever
\* finds the channel closed.
C34_ClosedOnceAfterReaders ==
    /\ logrun.closes <= 1
    /\ ~logrun.late
    /\ logrun.closed =>
          /\ logrun.closes = 1
          /\ logrun.pc = "done"
          /\ logrun.wrote
          /\ \A s \in Streams : logrun.proc # "none" => logrun.rdone[s]

\* a cancelled run whose script had written lines: channel closed, readers ended
C34_Witness ==
    /\ logrun.closed
    /\ logrun.ctx_done
    /\ logrun.proc = "exited"
    /\ \A s \in Streams : logrun.rdone[s]
    /\ logrun.npub >= LogChanCap + 2

\* the ids of a list are those of published lines, in publish order
InPublishOrder(logs) ==
    /\ \A n \in DOMAIN logs : logs[n] \in 1 .. logrun.npub
    /\ \A m, n \in DOMAIN logs : m < n => logs[m] < logs[n]

\* C35: the channel never holds more than LogChanCap lines; a logMessage call
\* appends its line at the tail when fewer are queued and otherwise leaves the
\* queue as it is; the list a GetJobLogs call returns for the live run is a
\* subsequence of the published lines in publish order.
C35_PublishDropsWhenFull ==
    /\ [](Len(logrun.chan) <= LogChanCap)
    /\ [][logrun'.npub = logrun.npub + 1
            => logrun'.chan = IF Len(logrun.chan) < LogChanCap
                              THEN Append(logrun.chan, logrun'.npub)
                              ELSE logrun.chan]_vars
    /\ [](\A i \in DOMAIN logrun.gets :
             (logrun.gets[i].pc = "returned" /\ logrun.gets[i].live)
                 => InPublishOrder(logrun.gets[i].logs))

\* a reader got a full channel's worth of lines and a later line was dropped
C35_Witness ==
    \E i \in DOMAIN logrun.gets :
        /\ logrun.gets[i].pc = "returned"
        /\ Len(logrun.gets[i].logs) >= LogChanCap
        /\ logrun.npub > Len(logrun.gets[i].logs) + Len(logrun.chan)

\* C36: a GetJobLogs call on a live run never ends up receiving from the
\* closed channel (from where its loop cannot return), and what it has
\* collected are lines that were queued, never the zero value of a closed
\* channel.
C36_GetJobLogsTerminates ==
    \A i \in DOMAIN logrun.gets :
        /\ logrun.gets[i].pc # "spin"
        /\ \A n \in DOMAIN logrun.gets[i].logs : logrun.gets[i].logs[n] # 0

====
